---- MODULE Spec2Model ----
\* Client-side target / snapshot reconciliation of the FPS prototype:
\* the network callbacks of scene.js over the target list of the target
\* manager, the weapon's target-collider registry and the retry polling of
\* processGameState.
EXTENDS Integers, Sequences, FiniteSets, TLC

VARIABLES
    targetManager,     \* scene.js: let targetManager = null / new TargetManager
    isModelLoaded,     \* targetManager.isModelLoaded
    targets,           \* targetManager.targets (array of target objects); the field
                       \* collider of a target is weapon.targetColliders.has(target)
    weapon,            \* scene.js: let weapon = null / window.weapon
    isLoaded,          \* weapon.isLoaded
    staleColliders,    \* entries of weapon.targetColliders whose target has left the scene
    remotePlayers,     \* scene.js: const remotePlayers = new Map(), its key set
    pendingGameState,  \* scene.js: let pendingGameState
    retryTimers,       \* outstanding setTimeout(processGameState, ...) timers
    score,             \* scene.js: let score
    last,              \* the callback that ran last, with its payload (history)
    activeBullets,     \* weapon.activeBullets: array of bullet objects
    bulletColliders,   \* weapon.bulletColliders, its key set (bullet meshes)
    isShooting,        \* weapon.isShooting
    shootTimer,        \* weapon.shootTimer, in ms
    magAmmo,           \* weapon.magAmmo
    totalAmmo,         \* weapon.totalAmmo
    bulletCount,       \* bullet meshes created so far; mesh n is the n-th
    orphanColliders,   \* collider meshes in the scene that targetColliders has lost
    debugMode,         \* weapon.debugMode
    debugHelpers,      \* weapon.debugHelpers, its key set: <<"bullet", mesh>>, <<"target", id>>
    hist,              \* what the last weapon.update did, time since the last shot (history)
    isConnected,       \* networkManager.isConnected
    isLocked,          \* player.isLocked (pointer lock)
    playerPoses,       \* per identifier: the update the pose of its RemotePlayer was last
                       \* set from (its number in the order the server sent them), 0: none
    sentInputs,        \* the playerInput messages the last frame of animate() sent (history)
    trails,            \* ages, in frames, of the generic shot effects in the scene
    lostPlayers,       \* identifiers with a RemotePlayer object that was replaced in
                       \* remotePlayers and not destroyed
    sinceSnapshot      \* the targets and players that targetDestroyed and playerLeft
                       \* events named while the last snapshot received was pending (history)

\* the weapon's projectile and trigger state
weaponVars == <<activeBullets, bulletColliders, isShooting, shootTimer, magAmmo,
                totalAmmo, bulletCount, orphanColliders, debugMode, debugHelpers, hist>>

\* the connection, the pointer lock and what the network callbacks draw
netVars == <<isConnected, isLocked, playerPoses, sentInputs, trails, lostPlayers,
             sinceSnapshot>>

vars == <<targetManager, isModelLoaded, targets, weapon, isLoaded, staleColliders,
          remotePlayers, pendingGameState, retryTimers, score, last, weaponVars, netVars>>

\* ---------------------------------------------------------------- bounds

MaxHP == 2
MaxStale == 2
MaxTimers == 2
MaxScore == 2
MaxHitsPerTick == 1
MaxOrphans == 1
MaxPose == 1

NULL == "null"

\* Identifiers on the wire are JSON values: a string or a number.
Kinds == {"str", "num"}
\* the identifiers the server uses; one of them is also sent as a number
IdNums == {1, 2}
KindNums(k) == IF k = "str" THEN IdNums ELSE {1}
WireIds == UNION {{<<k, n>> : n \in KindNums(k)} : k \in Kinds}
NoId == <<"none", 0>>

\* Number.prototype.toString / String.prototype.toString
ToStr(id) == <<"str", id[2]>>

\* the identifier the target manager makes up when the options carry none
ProvisionalId == <<"local", 0>>

LocalPlayer == "p0"
PlayerIds == {"p0", "p1"}

PointVals == {1, 2}

\* the damage of one local hit, in health units
TargetDamage == 1

Max(a, b) == IF a >= b THEN a ELSE b

\* ------------------------------------------------------- target manager

\* Array.prototype.find / findIndex with ===: first index whose targetId is id, 0 if none
FindIndex(ts, id) ==
    IF \E i \in 1..Len(ts) : ts[i].targetId = id
    THEN CHOOSE i \in 1..Len(ts) :
            /\ ts[i].targetId = id
            /\ \A j \in 1..(i - 1) : ts[j].targetId # id
    ELSE 0

\* targetManager.createTarget(position, options): the index of the target it
\* returns (0 for null) and the list afterwards.  Create-or-update by identifier;
\* no target can be built before the model is loaded.
CreateTarget(ts, options, loaded) ==
    LET sid == IF options.targetId = NoId THEN ProvisionalId
               ELSE ToStr(options.targetId)
        i == IF options.targetId = NoId THEN 0 ELSE FindIndex(ts, sid)
    IN  IF ~loaded THEN [targets |-> ts, idx |-> 0]
        ELSE IF i > 0 THEN [targets |-> ts, idx |-> i]
        ELSE [targets |-> Append(ts, [targetId |-> sid,
                                      health |-> options.health,
                                      maxHealth |-> options.health,
                                      points |-> options.points,
                                      locallyDestroyed |-> FALSE,
                                      collider |-> FALSE,
                                      pose |-> <<0, 0>>,
                                      colliderPose |-> <<0, 0>>]),
              idx |-> Len(ts) + 1]

\* targetManager.destroyTargetById(id, false): the list without that target
DestroyTargetById(ts, id) ==
    LET i == FindIndex(ts, ToStr(id))
    IN  IF i = 0 THEN ts
        ELSE SubSeq(ts, 1, i - 1) \o SubSeq(ts, i + 1, Len(ts))

\* its return value
WasDestroyed(ts, id) == FindIndex(ts, ToStr(id)) > 0

\* the score after destroyTargetById(id, false): a destruction the server
\* reports is not passed to the targetManager.onTargetDestroyed callback
\* (score += points), the caller awards the points
DestroyCallbackScore(sc, ts, id) == sc

\* targetManager.clearAllTargets()
ClearAllTargets(ts) == << >>

\* target.userData.onHit(hitInfo): the local, optimistic hit
OnHit(t) ==
    IF t.health <= 0 \/ t.locallyDestroyed THEN t
    ELSE LET h == Max(0, t.health - TargetDamage)
         IN  [t EXCEPT !.health = h, !.locallyDestroyed = (h = 0)]

\* ------------------------------------------------------------ weapon

\* the targets of the list that have a collider in weapon.targetColliders
WithCollider(ts) == {i \in 1..Len(ts) : ts[i].collider}

\* the colliders left behind by the targets that ts had and after has not:
\* removing a target from the scene does not touch weapon.targetColliders
LeftBehind(ts, after) == Cardinality(WithCollider(ts)) - Cardinality(WithCollider(after))

\* collider.position.y += 1.0
ColliderOffset == 1

\* the pose <<height, rotation>> createTargetCollider and updateTargetColliders
\* give the collider of a target whose pose is p
ColliderPoseOf(p) == <<p[1] + ColliderOffset, p[2]>>

\* Weapon.scanForNewTargets: every object of the scene flagged isTarget gets a
\* collider at its pose unless targetColliders already has one for it
ScanForNewTargets(ts) ==
    [i \in 1..Len(ts) |->
        IF ts[i].collider THEN ts[i]
        ELSE [ts[i] EXCEPT !.collider = TRUE, !.colliderPose = ColliderPoseOf(ts[i].pose)]]

\* variant: a target that has faded out is taken for one that has left the scene
UpdateTargetColliders_DropDestroyed(ts) ==
    [i \in 1..Len(ts) |->
        IF ts[i].locallyDestroyed THEN [ts[i] EXCEPT !.collider = FALSE] ELSE ts[i]]

\* variant: the position is copied, the rotation is not
UpdateTargetColliders_PositionOnly(ts) ==
    [i \in 1..Len(ts) |->
        IF ts[i].collider
        THEN [ts[i] EXCEPT !.colliderPose =
                 <<ColliderPoseOf(ts[i].pose)[1], ts[i].colliderPose[2]>>]
        ELSE ts[i]]

\* Weapon.updateTargetColliders: the collider of a target that is in the scene
\* (target.parent is set) takes the pose of its target ...
UpdateTargetColliders(ts) ==
    [i \in 1..Len(ts) |->
        IF ts[i].collider
        THEN [ts[i] EXCEPT !.colliderPose = ColliderPoseOf(ts[i].pose)]
        ELSE ts[i]]

\* ... and a collider whose target has left the scene is removed
RemoveStaleColliders(stale) == 0

\* Weapon.onTargetHit(parentTarget, hit), called by checkBulletColliderCollision
\* for the target that owns the collider a bullet ran into; hit 0 is the
\* collider of a target that has left the scene
WeaponOnTargetHit(ts, hit) ==
    [i \in 1..Len(ts) |-> IF i = hit THEN OnHit(ts[i]) ELSE ts[i]]

\* Weapon.updateBullets: the bullets of one tick hit these colliders, in this order
RECURSIVE UpdateBullets(_, _)
UpdateBullets(ts, hits) ==
    IF hits = << >> THEN ts
    ELSE UpdateBullets(WeaponOnTargetHit(ts, Head(hits)), Tail(hits))

\* --------------------------------------------------- network callbacks

\* variant: the reported damage is subtracted from the local health
OnTargetHit_Delta(ts, d) ==
    LET i == FindIndex(ts, d.targetId)
    IN  IF i = 0 THEN ts
        ELSE [ts EXCEPT ![i] = [@ EXCEPT !.health = Max(0, @ - d.damage),
                                         !.locallyDestroyed = FALSE]]

\* variant: the local destruction mark is left in place
OnTargetHit_KeepMark(ts, d) ==
    LET i == FindIndex(ts, d.targetId)
    IN  IF i = 0 THEN ts
        ELSE [ts EXCEPT ![i] = [@ EXCEPT !.health = d.health]]

\* variant: a hit on an identifier the list has not creates the target
OnTargetHit_Upsert(ts, d) ==
    LET i == FindIndex(ts, d.targetId)
    IN  IF i = 0
        THEN Append(ts, [targetId |-> ToStr(d.targetId), health |-> d.health,
                         maxHealth |-> MaxHP, points |-> 1, locallyDestroyed |-> FALSE,
                         collider |-> FALSE, pose |-> <<0, 0>>, colliderPose |-> <<0, 0>>])
        ELSE [ts EXCEPT ![i] = [@ EXCEPT !.health = d.health,
                                         !.locallyDestroyed = FALSE]]

\* networkManager.onTargetHit
OnTargetHit(ts, d) ==
    LET i == FindIndex(ts, d.targetId)
    IN  IF i = 0 THEN ts
        ELSE [ts EXCEPT ![i] = [@ EXCEPT !.health = d.health,
                                         !.locallyDestroyed = FALSE]]

\* networkManager.onTargetDestroyed: the list, and the score
OnTargetDestroyed(ts, d) == DestroyTargetById(ts, d.targetId)

\* variant: the points are awarded whether or not a target was removed
AwardPoints_Unchecked(sc, wasDestroyed, d) ==
    IF d.playerId = LocalPlayer THEN sc + d.points ELSE sc

\* variant: the points are awarded whoever destroyed the target
AwardPoints_AnyPlayer(sc, wasDestroyed, d) ==
    IF wasDestroyed THEN sc + d.points ELSE sc

\* the score update of networkManager.onTargetDestroyed
AwardPoints(sc, wasDestroyed, d) ==
    IF wasDestroyed /\ d.playerId = LocalPlayer THEN sc + d.points ELSE sc

\* variant: the server identifier is not passed on
SpawnOptions_NoId(d) == [targetId |-> NoId, health |-> d.health, points |-> d.points]

\* the options networkManager.onTargetSpawned hands to createTarget
SpawnOptions(d) == [targetId |-> d.id, health |-> d.health, points |-> d.points]

\* what both callers write into the target createTarget returned
SetServerData(ts, i, id, health, maxHealth, points) ==
    IF i = 0 THEN ts
    ELSE [ts EXCEPT ![i] = [@ EXCEPT !.targetId = ToStr(id),
                                     !.health = health,
                                     !.maxHealth = maxHealth,
                                     !.points = points]]

\* networkManager.onTargetSpawned
OnTargetSpawned(ts, d, loaded) ==
    LET r == CreateTarget(ts, SpawnOptions(d), loaded)
    IN  SetServerData(r.targets, r.idx, d.id, d.health, d.maxHealth, d.points)

\* a || b on numbers
OrElse(a, b) == IF a # 0 THEN a ELSE b

\* ------------------------------------------------------ processGameState

\* pendingGameState is << >> for null and <<gameState>> otherwise
NoState == << >>

\* variant: the model is not waited for
SystemsReady_NoModelCheck(tm, loaded) == tm # NULL

\* if (!targetManager) ... if (!targetManager.isModelLoaded) ...
SystemsReady(tm, loaded) == tm # NULL /\ loaded

\* gameState.players.forEach: every player but the local one
InitialRemotePlayers(rp, gs) == rp \cup {p \in gs.players : p # LocalPlayer}

\* variant: the existing targets are kept
ClearExisting_Skipped(ts) == ts

\* targetManager.clearAllTargets() in processGameState
ClearExisting(ts) == ClearAllTargets(ts)

StateOptions(e) == [targetId |-> e.id, health |-> e.health, points |-> e.points]

\* gameState.targets.forEach: one target per entry with isAlive
RECURSIVE CreateFromState(_, _, _)
CreateFromState(entries, ts, loaded) ==
    IF entries = << >> THEN ts
    ELSE LET e == Head(entries)
         IN  IF e.isAlive
             THEN LET r == CreateTarget(ts, StateOptions(e), loaded)
                  IN  CreateFromState(Tail(entries),
                          SetServerData(r.targets, r.idx, e.id, e.health,
                                        OrElse(e.maxHealth, e.health), e.points),
                          loaded)
             ELSE CreateFromState(Tail(entries), ts, loaded)

\* variant: the snapshot is left pending
ClearPending_Kept(pending) == pending

\* pendingGameState = null at the end of processGameState
ClearPending(pending) == NoState

\* processGameState() on the state s = [pending, tm, loaded, w, targets, stale,
\* players, timers, ran]; the same record afterwards, ran set when the
\* clear-and-rebuild was executed
ProcessGameState(s) ==
    IF s.pending = NoState THEN s
    ELSE IF ~SystemsReady(s.tm, s.loaded)
    THEN [s EXCEPT !.timers = @ + 1]
    ELSE LET gs == s.pending[1]
             cleared == ClearExisting(s.targets)
             ts == CreateFromState(gs.targets, cleared, s.loaded)
         IN  [s EXCEPT !.players = InitialRemotePlayers(s.players, gs),
                       !.targets = IF Len(gs.targets) > 0 /\ s.w # NULL
                                   THEN ScanForNewTargets(ts) ELSE ts,
                       !.stale = @ + LeftBehind(s.targets, cleared),
                       !.pending = ClearPending(@),
                       !.ran = TRUE]

Now == [pending |-> pendingGameState, tm |-> targetManager, loaded |-> isModelLoaded,
        w |-> weapon, targets |-> targets, stale |-> staleColliders,
        players |-> remotePlayers, timers |-> retryTimers, ran |-> FALSE]

\* --------------------------------------------------------------- inputs

SpawnData == [id : WireIds, health : 1..MaxHP, maxHealth : {MaxHP}, points : {1}]
HitData == [targetId : WireIds, damage : {TargetDamage}, health : 0..MaxHP]
DestroyData == [targetId : WireIds, playerId : PlayerIds, points : PointVals]

\* a snapshot entry per identifier number: none (-1), a dead target (health 0),
\* or an alive one with its health
EntryChoices == (-1)..MaxHP

Entry(kind, n, c) ==
    [id |-> <<kind, n>>,
     health |-> c,
     maxHealth |-> MaxHP,
     points |-> 1,
     isAlive |-> (c > 0)]

RECURSIVE SnapEntries(_, _, _)
SnapEntries(kind, f, ns) ==
    IF ns = {} THEN << >>
    ELSE LET n == CHOOSE m \in ns : \A k \in ns : m <= k
         IN  IF f[n] < 0 THEN SnapEntries(kind, f, ns \ {n})
             ELSE <<Entry(kind, n, f[n])>> \o SnapEntries(kind, f, ns \ {n})

GameStates ==
    UNION {{[players |-> ps, targets |-> SnapEntries(k, f, KindNums(k))] :
               ps \in {{}, PlayerIds}, f \in [KindNums(k) -> EntryChoices]} :
           k \in Kinds}

\* the bullets of one tick run into at most MaxHitsPerTick colliders: the
\* collider of targets[i], or (0) one of the stale colliders
HitSeqs(n) == UNION {[1..k -> 0..n] : k \in 0..MaxHitsPerTick}

\* ----------------------------------------------------------- projectiles

\* the frame time animate() passes to weapon.update, in ms
DeltaTime == 16

\* weapon.fireRate, in ms
FireRate == 100

\* weapon.bulletLifetime, in ms: three frames
BulletLifetime == 48

\* weapon.maxBulletTrails
MaxBulletTrails == 2

\* weapon.maxAmmo, and the totalAmmo the weapon is built with
MagSize == 2
ReserveAmmo == 2

\* bulletSpeed * deltaTime: the way of a bullet in one frame, in length units
Step == 3

\* Distances are measured along the ray from the muzzle.  A shot aimed at the
\* wall meets the wall in its third frame and, behind the wall, the collider of
\* the target OnRayId, both strictly between the ends of that frame's segment;
\* a shot into the open meets nothing.
Aims == {"wall", "open"}
WallAt == 2 * Step + 1
TargetAt == 2 * Step + 2
OnRayId == <<"str", 1>>

\* variant: only the bullet's new position is tested
Swept_PointSample(prev, cur, at) == at = cur

\* new THREE.Raycaster(prevPosition, direction, 0, distance): what lies at
\* distance `at` is intersected by the segment from prev to cur
Swept(prev, cur, at) == prev <= at /\ at <= cur

\* the first of the targets, in the order of the list, among those met (0: none)
FirstOf(on) == IF on = {} THEN 0 ELSE CHOOSE i \in on : \A j \in on : i <= j

\* A shot along the row meets the collider of the target NearId and, behind
\* it, the collider of the target OnRayId, both in its third frame; nothing
\* else lies on its ray.
NearId == <<"str", 2>>
NearAt == 2 * Step + 1

\* where the collider of the target id stands on the ray of a shot (0: not on it)
ColliderAt(aim, id) ==
    IF aim \in {"wall", "row"} /\ id = OnRayId THEN TargetAt
    ELSE IF aim = "row" /\ id = NearId THEN NearAt
    ELSE 0

\* the targets whose colliders the segment from prev to cur intersects
TargetIntersects(ts, aim, prev, cur) ==
    {i \in WithCollider(ts) :
        /\ ColliderAt(aim, ts[i].targetId) # 0
        /\ Swept(prev, cur, ColliderAt(aim, ts[i].targetId))}

\* variant: the intersections come in the order of the targetColliders map
NearestFirst_MapOrder(ts, aim, on) == FirstOf(on)

\* the intersections are sorted by distance: the nearest comes first, and of
\* two at the same distance the one that was tested first
NearestFirst(ts, aim, on) ==
    FirstOf({i \in on : \A j \in on :
                ColliderAt(aim, ts[i].targetId) <= ColliderAt(aim, ts[j].targetId)})

\* intersectObjects(targetColliders)[0]: the target whose collider the segment
\* meets first (0: none) ...
FirstTargetHit(ts, aim, prev, cur) ==
    NearestFirst(ts, aim, TargetIntersects(ts, aim, prev, cur))

\* In debug mode a shot can also be aimed through the place where the
\* wireframe attached to the target OnRayId stands, or through the place
\* where the wireframe attached to another bullet in flight is; the shot
\* passes it in its second frame and nothing else lies on its ray.
DebugAims == {"targetHelper", "bulletHelper"}
HelperAt == Step + 1

\* the flags of the kinds of object the scene holds; underModel: the weapon
\* model is among its ancestors.  A debug wireframe is a plain Mesh, added as
\* a child of the bullet or target it is made for, with no userData.
SceneObject(kind) ==
    [isMesh |-> kind # "target",
     isWeapon |-> kind = "weaponMesh",
     underModel |-> kind = "weaponMesh",
     isBullet |-> kind = "bulletMesh",
     isBulletCollider |-> kind = "bulletCollider",
     isTargetCollider |-> kind = "targetCollider",
     isTarget |-> kind = "target"]

\* isWeaponMesh(mesh)
IsWeaponMesh(o) == o.isWeapon \/ o.isBullet \/ o.underModel

\* the filter of the scene.traverse that collects environmentTargets
IsEnvironmentTarget(o) ==
    /\ o.isMesh
    /\ ~IsWeaponMesh(o)
    /\ ~o.isBullet
    /\ ~o.isBulletCollider
    /\ ~o.isTargetCollider
    /\ ~o.isTarget

\* debugHelpers.has / addDebugHelper(mesh) / removeDebugHelper(mesh)
AddDebugHelper(helpers, debug, owner) ==
    IF debug THEN helpers \cup {owner} ELSE helpers

RemoveDebugHelper(helpers, owner) == helpers \ {owner}

\* the objects of the scene, as <<kind, distance>>, that the segment from prev
\* to the position of bullet b meets: the bullet's own mesh and collider, and
\* what its aim puts on its ray
OnSegment(w, b, prev) ==
    {<<"bulletMesh", b.pos>>, <<"bulletCollider", b.pos>>}
    \cup (IF b.aim = "wall" /\ Swept(prev, b.pos, WallAt)
          THEN {<<"wall", WallAt>>} ELSE {})
    \cup (IF FirstTargetHit(w.targets, b.aim, prev, b.pos) > 0
          THEN {<<"targetCollider", TargetAt>>} ELSE {})
    \cup (IF /\ b.aim = "targetHelper"
             /\ Swept(prev, b.pos, HelperAt)
             /\ <<"target", OnRayId>> \in w.helpers
             /\ FindIndex(w.targets, OnRayId) > 0
          THEN {<<"targetHelper", HelperAt>>} ELSE {})
    \cup (IF /\ b.aim = "bulletHelper"
             /\ Swept(prev, b.pos, HelperAt)
             /\ \E k \in 1..Len(w.bullets) :
                   /\ w.bullets[k].mesh # b.mesh
                   /\ <<"bullet", w.bullets[k].mesh>> \in w.helpers
          THEN {<<"bulletHelper", HelperAt>>} ELSE {})

\* the intersections come sorted by distance: the nearest of env
NearestOf(env) ==
    IF env = {} THEN <<"", 0>>
    ELSE CHOOSE o \in env : \A q \in env : o[2] <= q[2]

\* ... and intersectObjects(environmentTargets)[0]: the environment mesh it
\* meets first, as <<kind, distance>> (<<"", 0>>: none)
FirstEnvHit(w, b, prev) ==
    NearestOf({o \in OnSegment(w, b, prev) : IsEnvironmentTarget(SceneObject(o[1]))})

\* variant: the nearest intersection wins
HitKind_Nearest(targetAt, envAt) ==
    IF targetAt # 0 /\ (envAt = 0 \/ targetAt <= envAt) THEN "target"
    ELSE IF envAt # 0 THEN "env"
    ELSE "none"

\* PRIORITY 1 / PRIORITY 2 of checkBulletColliderCollision: the environment is
\* looked at only when no target collider is intersected
HitKind(targetAt, envAt) ==
    IF targetAt # 0 THEN "target"
    ELSE IF envAt # 0 THEN "env"
    ELSE "none"

\* activeBullets.indexOf(bullet), 0 if absent
IndexOfBullet(bs, mesh) ==
    IF \E i \in 1..Len(bs) : bs[i].mesh = mesh
    THEN CHOOSE i \in 1..Len(bs) : bs[i].mesh = mesh
    ELSE 0

\* activeBullets.splice(i, 1); splice(-1, 1), of an absent bullet's indexOf,
\* removes the last element
Splice(bs, i) ==
    IF i = 0 THEN SubSeq(bs, 1, Len(bs) - 1)
    ELSE IF i > Len(bs) THEN bs
    ELSE SubSeq(bs, 1, i - 1) \o SubSeq(bs, i + 1, Len(bs))

\* what checkBulletColliderCollision does with the first target t and the
\* first environment mesh env of its two raycasts: on a hit the target is
\* told, and the bullet is removed with its collider.
\* An event is <<what, bullet mesh, target, distance, kind>>: for a collision,
\* the target whose collider the segment met (0: none) and the distance and
\* the kind of the environment mesh it met (0, "": none).
ResolveCollision(w, b, t, env) ==
    LET envAt == env[2]
        kind == HitKind(IF t > 0 THEN TargetAt ELSE 0, envAt)
        removed == [w EXCEPT !.colliders = @ \ {b.mesh},
                             !.helpers = RemoveDebugHelper(@, <<"bullet", b.mesh>>),
                             !.bullets = Splice(@, IndexOfBullet(@, b.mesh)),
                             !.hit = TRUE]
    IN  IF kind = "target"
        THEN [removed EXCEPT !.targets = WeaponOnTargetHit(@, t),
                             !.events = Append(@, <<"hit", b.mesh, t, envAt, env[1]>>)]
        ELSE IF kind = "env"
        THEN [removed EXCEPT !.events = Append(@, <<"env", b.mesh, t, envAt, env[1]>>)]
        ELSE [w EXCEPT !.hit = FALSE]

\* checkBulletColliderCollision(bullet, prevPosition) on the weapon state
\* w = [bullets, colliders, targets, events, helpers, debug, hit]; hit is its
\* return value.
CheckBulletColliderCollision(w, b, prev) ==
    IF b.mesh \notin w.colliders \/ b.pos = prev THEN [w EXCEPT !.hit = FALSE]
    ELSE ResolveCollision(w, b, FirstTargetHit(w.targets, b.aim, prev, b.pos),
                          FirstEnvHit(w, b, prev))

\* bullet.mesh.position.add(...): the i-th bullet moves on by one frame
MoveBullet(w, i) == [w EXCEPT !.bullets[i].pos = @ + Step]

\* the rest of the loop body after the collision check left c: the bullet b
\* ages unless it hit, and is spliced out at index i when its life is used up
AgeBullet(c, b, i) ==
    LET life == b.life - DeltaTime
        aged == IF c.hit THEN c ELSE [c EXCEPT !.bullets[i].life = life]
        \* the mesh of the element splice(i, 1) takes out, 0 if none
        out == IF i <= Len(aged.bullets) THEN aged.bullets[i].mesh ELSE 0
    IN  IF life <= 0
        THEN [aged EXCEPT !.colliders = @ \ {b.mesh},
                          !.helpers = RemoveDebugHelper(@, <<"bullet", b.mesh>>),
                          !.bullets = Splice(@, i),
                          !.events = Append(@, <<"expired", b.mesh, out, 0, "">>)]
        ELSE aged

\* the body of the loop of updateBullets for index i, and the indices below
\* it: the bullet moves, is checked for a collision, ages, and is spliced out
\* at index i when its life is used up
RECURSIVE UpdateBulletsLoop(_, _)
UpdateBulletsLoop(w, i) ==
    IF i = 0 THEN w
    ELSE UpdateBulletsLoop(
             AgeBullet(CheckBulletColliderCollision(MoveBullet(w, i),
                                                    MoveBullet(w, i).bullets[i],
                                                    w.bullets[i].pos),
                       MoveBullet(w, i).bullets[i], i),
             i - 1)

\* variant: the newest bullet makes room
EvictOldest_Newest(bs) == SubSeq(bs, 1, Len(bs) - 1)

\* activeBullets.shift()
EvictOldest(bs) == Tail(bs)

\* createBulletTrail(): the bullet and its collider are created and pushed;
\* above the cap the oldest bullet is shifted out and its mesh removed from
\* the scene
CreateBulletTrail(w, aim, mesh) ==
    LET pushed == Append(w.bullets,
                         [mesh |-> mesh, aim |-> aim, pos |-> 0, life |-> BulletLifetime])
        over == Len(pushed) > MaxBulletTrails
        kept == EvictOldest(pushed)
        \* oldBullet, the element shifted out
        oldBullet == CHOOSE b \in {pushed[i] : i \in 1..Len(pushed)} :
                        \A i \in 1..Len(kept) : kept[i] # b
    IN  [w EXCEPT !.colliders = @ \cup {mesh},
                  !.helpers = AddDebugHelper(@, w.debug, <<"bullet", mesh>>),
                  !.bullets = IF over THEN kept ELSE pushed,
                  !.events = IF over
                             THEN @ \o << <<"shot", mesh, 0, 0, "">>,
                                          <<"evicted", oldBullet.mesh, 0, 0, "">> >>
                             ELSE Append(@, <<"shot", mesh, 0, 0, "">>)]

\* variant: reload() fills the magazine without taking from the reserve
Reload_Free(a) ==
    IF a.mag >= MagSize \/ a.total <= 0 THEN a
    ELSE [mag |-> MagSize, total |-> a.total]

\* reload() on [mag, total]
Reload(a) ==
    IF a.mag >= MagSize \/ a.total <= 0 THEN a
    ELSE LET n == IF MagSize - a.mag <= a.total THEN MagSize - a.mag ELSE a.total
         IN  [mag |-> a.mag + n, total |-> a.total - n]

\* -------------------------------------------------------------- actions

Init ==
    /\ targetManager = NULL
    /\ isModelLoaded = FALSE
    /\ targets = << >>
    /\ weapon = NULL
    /\ isLoaded = FALSE
    /\ staleColliders = 0
    /\ remotePlayers = {}
    /\ pendingGameState = NoState
    /\ retryTimers = 0
    /\ score = 0
    /\ last = [op |-> "init", found |-> FALSE, flag |-> FALSE, alive |-> {}, players |-> {}]
    /\ activeBullets = << >>
    /\ bulletColliders = {}
    /\ isShooting = FALSE
    /\ shootTimer = 0
    /\ magAmmo = MagSize
    /\ totalAmmo = ReserveAmmo
    /\ bulletCount = 0
    /\ orphanColliders = 0
    /\ debugMode = FALSE
    /\ debugHelpers = {}
    /\ hist = [events |-> << >>, since |-> FireRate]
    /\ isConnected = FALSE
    /\ isLocked = FALSE
    /\ playerPoses = [p \in PlayerIds |-> 0]
    /\ sentInputs = << >>
    /\ trails = << >>
    /\ lostPlayers = {}
    /\ sinceSnapshot = [targets |-> {}, players |-> {}]

\* initializeSystems(): weapon and target manager are constructed; a retry is
\* scheduled when a snapshot is already pending
InitializeSystems ==
    /\ targetManager = NULL
    /\ weapon' = "weapon"
    /\ targetManager' = "targetManager"
    /\ retryTimers' = IF pendingGameState # NoState THEN retryTimers + 1 ELSE retryTimers
    /\ last' = [op |-> "initializeSystems", found |-> pendingGameState # NoState,
                flag |-> FALSE, alive |-> {}, players |-> {}]
    /\ UNCHANGED <<isModelLoaded, targets, isLoaded, staleColliders, remotePlayers,
                   pendingGameState, score>>
    /\ UNCHANGED weaponVars
    /\ UNCHANGED netVars

\* the target manager's model finishes loading
ModelLoaded ==
    /\ targetManager # NULL
    /\ ~isModelLoaded
    /\ isModelLoaded' = TRUE
    /\ last' = [op |-> "modelLoaded", found |-> FALSE, flag |-> FALSE, alive |-> {}, players |-> {}]
    /\ UNCHANGED <<targetManager, targets, weapon, isLoaded, staleColliders,
                   remotePlayers, pendingGameState, retryTimers, score>>
    /\ UNCHANGED weaponVars
    /\ UNCHANGED netVars

\* Weapon.init() completes: isLoaded is set and the scene is scanned
WeaponLoaded ==
    /\ weapon # NULL
    /\ ~isLoaded
    /\ isLoaded' = TRUE
    /\ targets' = ScanForNewTargets(targets)
    /\ last' = [op |-> "weaponLoaded", found |-> FALSE, flag |-> FALSE, alive |-> {}, players |-> {}]
    /\ UNCHANGED <<targetManager, isModelLoaded, weapon, staleColliders, remotePlayers,
                   pendingGameState, retryTimers, score>>
    /\ UNCHANGED weaponVars
    /\ UNCHANGED netVars

\* the identifiers of the targets of a list
TargetIds(ts) == {ts[i].targetId : i \in 1..Len(ts)}

\* the entries of a snapshot with isAlive
AliveEntries(gs) ==
    {gs.targets[k] : k \in {j \in 1..Len(gs.targets) : gs.targets[j].isAlive}}

\* their identifiers as strings, each with its health
AliveTargets(gs) == {<<ToStr(e.id), e.health>> : e \in AliveEntries(gs)}

\* the players of a snapshot other than the local one
OtherPlayers(gs) == gs.players \ {LocalPlayer}

\* the timer initializeSystems is yet to schedule for a pending snapshot
TimerOfInit == IF targetManager = NULL THEN 1 ELSE 0

\* the step from the state before to s, what processGameState made of it
ProcessInto(op, before, s) ==
    LET processed == s.ran
        deferred == before.pending # NoState /\ ~s.ran
    IN  /\ s.timers + TimerOfInit <= MaxTimers
        /\ s.stale <= MaxStale
        /\ targets' = s.targets
        /\ staleColliders' = s.stale
        /\ remotePlayers' = s.players
        /\ pendingGameState' = s.pending
        /\ retryTimers' = s.timers
        \* found: the rebuild ran; flag: it dropped a target the list had, or
        \* (deferred) alternates from one poll to the next; alive, players: the
        \* alive targets and the other players of the snapshot the rebuild ran on
        /\ last' = [op |-> op, found |-> processed,
                    flag |-> IF processed
                             THEN ~(TargetIds(targets) \subseteq TargetIds(s.targets))
                             ELSE deferred /\ ~(last.op = op /\ last.flag),
                    alive |-> IF processed THEN AliveTargets(before.pending[1]) ELSE {},
                    players |-> IF processed THEN OtherPlayers(before.pending[1]) ELSE {}]
        /\ UNCHANGED <<targetManager, isModelLoaded, weapon, isLoaded, score>>
        \* a RemotePlayer the rebuild constructs has had no update yet
        /\ playerPoses' = [p \in PlayerIds |->
                               IF processed /\ p \in OtherPlayers(before.pending[1])
                               THEN 0 ELSE playerPoses[p]]
        /\ UNCHANGED weaponVars
        \* remotePlayers.set replaces the entry of a player the map has
        /\ lostPlayers' = IF processed
                          THEN lostPlayers \cup (OtherPlayers(before.pending[1]) \cap before.players)
                          ELSE lostPlayers
        \* a snapshot that arrives starts the record of the events it may miss
        /\ sinceSnapshot' = IF op = "gameStateReceived"
                            THEN [targets |-> {}, players |-> {}] ELSE sinceSnapshot
        /\ UNCHANGED <<isConnected, isLocked, sentInputs, trails>>

\* the application of processGameState to the state before
Process(op, before) == ProcessInto(op, before, ProcessGameState(before))

\* networkManager.onGameStateReceived
GameStateReceived(gs) ==
    Process("gameStateReceived", [Now EXCEPT !.pending = <<gs>>])

\* a setTimeout(processGameState, ...) timer fires
RetryTimer ==
    /\ retryTimers > 0
    /\ Process("retryTimer", [Now EXCEPT !.timers = @ - 1])

\* networkManager.onTargetSpawned
TargetSpawned(d) ==
    /\ IF targetManager # NULL
       THEN targets' = OnTargetSpawned(targets, d, isModelLoaded)
       ELSE targets' = targets
    /\ last' = [op |-> "targetSpawned",
                found |-> FindIndex(targets, ToStr(d.id)) > 0,
                flag |-> targetManager # NULL /\ isModelLoaded,
                alive |-> {}, players |-> {}]
    /\ UNCHANGED <<targetManager, isModelLoaded, weapon, isLoaded, staleColliders,
                   remotePlayers, pendingGameState, retryTimers, score>>
    /\ UNCHANGED weaponVars
    /\ UNCHANGED netVars

\* networkManager.onTargetHit
TargetHit(d) ==
    /\ IF targetManager # NULL
       THEN targets' = OnTargetHit(targets, d)
       ELSE targets' = targets
    /\ last' = [op |-> "targetHit",
                found |-> targetManager # NULL /\ FindIndex(targets, d.targetId) > 0,
                flag |-> /\ targetManager # NULL
                         /\ d.health > 0
                         /\ \E i \in 1..Len(targets) :
                               /\ targets[i].targetId = d.targetId
                               /\ targets[i].locallyDestroyed,
                alive |-> {}, players |-> {}]
    /\ UNCHANGED <<targetManager, isModelLoaded, weapon, isLoaded, staleColliders,
                   remotePlayers, pendingGameState, retryTimers, score>>
    /\ UNCHANGED weaponVars
    /\ UNCHANGED netVars

\* networkManager.onTargetDestroyed
TargetDestroyed(d) ==
    /\ IF targetManager # NULL
       THEN /\ targets' = OnTargetDestroyed(targets, d)
            /\ score' = AwardPoints(DestroyCallbackScore(score, targets, d.targetId),
                                    WasDestroyed(targets, d.targetId), d)
       ELSE UNCHANGED <<targets, score>>
    /\ score' <= MaxScore
    /\ staleColliders' = staleColliders + LeftBehind(targets, targets')
    /\ staleColliders' <= MaxStale
    /\ last' = [op |-> "targetDestroyed",
                found |-> targetManager # NULL /\ WasDestroyed(targets, d.targetId),
                flag |-> d.playerId = LocalPlayer,
                alive |-> {}, players |-> {}]
    /\ UNCHANGED <<targetManager, isModelLoaded, weapon, isLoaded,
                   remotePlayers, pendingGameState, retryTimers>>
    /\ UNCHANGED weaponVars
    /\ sinceSnapshot' = IF pendingGameState # NoState
                        THEN [sinceSnapshot EXCEPT !.targets = @ \cup {ToStr(d.targetId)}]
                        ELSE sinceSnapshot
    /\ UNCHANGED <<isConnected, isLocked, playerPoses, sentInputs, trails, lostPlayers>>

\* a scan timer fires: the 5 s interval of initializeSystems, or one of the
\* delayed rescans that onTargetSpawned and processGameState schedule
ScanTimer ==
    /\ weapon # NULL
    /\ targets' = ScanForNewTargets(targets)
    /\ last' = [op |-> "scanTimer", found |-> FALSE, flag |-> FALSE, alive |-> {}, players |-> {}]
    /\ UNCHANGED <<targetManager, isModelLoaded, weapon, isLoaded, staleColliders,
                   remotePlayers, pendingGameState, retryTimers, score>>
    /\ UNCHANGED weaponVars
    /\ UNCHANGED netVars

\* animate(): the full input when the pointer is locked, the basic one (zero
\* velocity, isMoving, isCrouching and isRunning false) when it is not,
\* nothing without a connection
BasicInput == [velocity |-> 0, isMoving |-> FALSE, isCrouching |-> FALSE, isRunning |-> FALSE]
FullInputs == {[velocity |-> v, isMoving |-> v # 0, isCrouching |-> c, isRunning |-> FALSE] :
                   v \in {0, 1}, c \in BOOLEAN}

\* variant: without the else branch for the unlocked pointer
PlayerInputOf_LockedOnly(connected, locked, input) ==
    IF connected /\ locked THEN <<input>> ELSE << >>

PlayerInputOf(connected, locked, input) ==
    IF connected /\ locked THEN <<input>>
    ELSE IF connected /\ ~locked THEN <<BasicInput>>
    ELSE << >>

SendPlayerInput ==
    \E input \in IF isConnected /\ isLocked THEN FullInputs ELSE {BasicInput} :
        sentInputs' = PlayerInputOf(isConnected, isLocked, input)

\* one frame of animate(): weapon.update(0.016) scans every 60th frame, moves
\* the bullets (which may run into colliders) and updates the target colliders
Tick(scanDue, hits) ==
    /\ weapon # NULL
    /\ isLoaded
    /\ LET scanned == IF scanDue THEN ScanForNewTargets(targets) ELSE targets
           ts == UpdateTargetColliders(UpdateBullets(scanned, hits))
       IN  /\ \A k \in 1..Len(hits) :
                IF hits[k] = 0 THEN staleColliders > 0
                ELSE hits[k] <= Len(scanned) /\ scanned[hits[k]].collider
           /\ targets' = ts
           /\ staleColliders' = RemoveStaleColliders(staleColliders)
           /\ last' = [op |-> "tick",
                       found |-> hits # << >>,
                       flag |-> \E i \in 1..Len(ts) :
                                   ts[i].locallyDestroyed /\ ~targets[i].locallyDestroyed,
                       alive |-> {}, players |-> {}]
    /\ UNCHANGED <<targetManager, isModelLoaded, weapon, isLoaded, remotePlayers,
                   pendingGameState, retryTimers, score>>
    /\ UNCHANGED weaponVars
    /\ SendPlayerInput
    /\ UNCHANGED <<isConnected, isLocked, playerPoses, trails, lostPlayers, sinceSnapshot>>

\* mousedown: startShooting()
StartShooting ==
    /\ isLoaded
    /\ isShooting' = TRUE
    /\ shootTimer' = 0
    /\ UNCHANGED <<targetManager, isModelLoaded, targets, weapon, isLoaded, staleColliders,
                   remotePlayers, pendingGameState, retryTimers, score, last>>
    /\ UNCHANGED <<activeBullets, bulletColliders, magAmmo, totalAmmo, bulletCount,
                   orphanColliders, debugMode, debugHelpers, hist>>
    /\ UNCHANGED netVars

\* mouseup: stopShooting()
StopShooting ==
    /\ isLoaded
    /\ isShooting
    /\ isShooting' = FALSE
    /\ UNCHANGED <<targetManager, isModelLoaded, targets, weapon, isLoaded, staleColliders,
                   remotePlayers, pendingGameState, retryTimers, score, last>>
    /\ UNCHANGED <<activeBullets, bulletColliders, shootTimer, magAmmo, totalAmmo,
                   bulletCount, orphanColliders, debugMode, debugHelpers, hist>>
    /\ UNCHANGED netVars

\* the R key: reload()
ReloadKey ==
    /\ isLoaded
    /\ LET a == Reload([mag |-> magAmmo, total |-> totalAmmo])
       IN  /\ a.mag # magAmmo
           /\ magAmmo' = a.mag
           /\ totalAmmo' = a.total
    /\ UNCHANGED <<targetManager, isModelLoaded, targets, weapon, isLoaded, staleColliders,
                   remotePlayers, pendingGameState, retryTimers, score, last>>
    /\ UNCHANGED <<activeBullets, bulletColliders, isShooting, shootTimer, bulletCount,
                   orphanColliders, debugMode, debugHelpers, hist>>
    /\ UNCHANGED netVars


\* the end of weapon.update: w1 is what updateBullets left, w2 what shoot()
\* left of it, a the ammo after it; the colliders follow their targets and
\* the timer runs
CommitUpdate(w1, w2, a, fired) ==
    LET ts == UpdateTargetColliders(w1.targets)
        timer == IF fired THEN FireRate ELSE shootTimer
    IN  /\ targets' = ts
        /\ staleColliders' = RemoveStaleColliders(staleColliders)
        /\ activeBullets' = w2.bullets
        /\ bulletColliders' = w2.colliders
        /\ debugHelpers' = w2.helpers
        /\ magAmmo' = a.mag
        /\ totalAmmo' = a.total
        /\ bulletCount' = IF fired THEN bulletCount + 1 ELSE bulletCount
        /\ shootTimer' = IF timer > 0 THEN timer - DeltaTime ELSE timer
        \* events: what this update did to which bullet mesh; since: the
        \* time from the last shot to the end of this update, up to FireRate
        /\ hist' = [events |-> w2.events,
                    since |-> IF fired THEN 0
                              ELSE IF hist.since + DeltaTime >= FireRate THEN FireRate
                              ELSE hist.since + DeltaTime]
        /\ last' = [op |-> "update",
                    found |-> \E k \in 1..Len(w1.events) : w1.events[k][1] = "hit",
                    flag |-> \E i \in 1..Len(ts) :
                                ts[i].locallyDestroyed /\ ~targets[i].locallyDestroyed,
                    alive |-> {}, players |-> {}]

\* variant: shoot() is called in every update in which the trigger is held
ShootWhenDue_NoTimer(w1, aim) ==
    LET due == isShooting
        fired == due /\ magAmmo > 0
    IN  CommitUpdate(w1,
                     IF fired THEN CreateBulletTrail(w1, aim, bulletCount + 1)
                     ELSE IF due
                     THEN [w1 EXCEPT !.events = Append(@, <<"reload", 0, 0, 0, "">>)]
                     ELSE w1,
                     IF due /\ ~fired THEN Reload([mag |-> magAmmo, total |-> totalAmmo])
                     ELSE IF fired THEN [mag |-> magAmmo - 1, total |-> totalAmmo]
                     ELSE [mag |-> magAmmo, total |-> totalAmmo],
                     fired)

\* weapon.update after updateBullets left w1: shoot() along aim when the
\* trigger is held and the timer has run down
ShootWhenDue(w1, aim) ==
    LET due == isShooting /\ shootTimer <= 0
        fired == due /\ magAmmo > 0
    IN  CommitUpdate(w1,
                     IF fired THEN CreateBulletTrail(w1, aim, bulletCount + 1)
                     ELSE IF due
                     THEN [w1 EXCEPT !.events = Append(@, <<"reload", 0, 0, 0, "">>)]
                     ELSE w1,
                     \* shoot(): an empty magazine reloads and returns false
                     IF due /\ ~fired THEN Reload([mag |-> magAmmo, total |-> totalAmmo])
                     ELSE IF fired THEN [mag |-> magAmmo - 1, total |-> totalAmmo]
                     ELSE [mag |-> magAmmo, total |-> totalAmmo],
                     fired)

\* one frame of animate() with the bullets in flight: weapon.update(0.016)
\* scans every 60th frame, runs updateBullets and updateTargetColliders, and
\* shoots along aim when the trigger is held and the timer has run down
WeaponUpdate(scanDue, aim) ==
    /\ weapon # NULL
    /\ isLoaded
    /\ ShootWhenDue(UpdateBulletsLoop(
                        [bullets |-> activeBullets,
                         colliders |-> bulletColliders,
                         targets |-> IF scanDue THEN ScanForNewTargets(targets) ELSE targets,
                         events |-> << >>,
                         helpers |-> debugHelpers,
                         debug |-> debugMode,
                         hit |-> FALSE],
                        Len(activeBullets)),
                    aim)
    /\ UNCHANGED <<targetManager, isModelLoaded, weapon, isLoaded, remotePlayers,
                   pendingGameState, retryTimers, score, isShooting, orphanColliders,
                   debugMode>>
    /\ SendPlayerInput
    /\ UNCHANGED <<isConnected, isLocked, playerPoses, trails, lostPlayers, sinceSnapshot>>

\* weapon.registerTarget(target), the public method behind window.registerTarget,
\* for the i-th target of the list: createTargetCollider adds a new collider
\* mesh to the scene and sets it in targetColliders, whether or not the map
\* holds one for the target already; the one it held stays in the scene
RegisterTarget(i) ==
    /\ weapon # NULL
    /\ i \in 1..Len(targets)
    /\ targets' = [targets EXCEPT ![i].collider = TRUE,
                                  ![i].colliderPose = ColliderPoseOf(targets[i].pose)]
    /\ orphanColliders' = IF targets[i].collider THEN orphanColliders + 1
                          ELSE orphanColliders
    /\ orphanColliders' <= MaxOrphans
    /\ last' = [op |-> "registerTarget", found |-> targets[i].collider, flag |-> FALSE,
                alive |-> {}, players |-> {}]
    /\ UNCHANGED <<targetManager, isModelLoaded, weapon, isLoaded, staleColliders,
                   remotePlayers, pendingGameState, retryTimers, score>>
    /\ debugHelpers' = AddDebugHelper(debugHelpers, debugMode,
                                      <<"target", targets[i].targetId>>)
    /\ UNCHANGED <<activeBullets, bulletColliders, isShooting, shootTimer, magAmmo,
                   totalAmmo, bulletCount, debugMode, hist>>
    /\ UNCHANGED netVars

\* toggleDebugMode(), the weaponDebug() console command of a loaded weapon:
\* turning the mode off removes every wireframe; turning it on gives every
\* target of the scene a wireframe, and a collider if it has none, and every
\* bullet in flight a wireframe
ToggleDebugMode ==
    /\ weapon # NULL
    /\ isLoaded
    /\ debugMode' = ~debugMode
    /\ IF debugMode
       THEN /\ debugHelpers' = {}
            /\ UNCHANGED targets
       ELSE /\ debugHelpers' = {<<"target", targets[i].targetId>> : i \in 1..Len(targets)}
                                 \cup {<<"bullet", m>> : m \in
                                         {activeBullets[i].mesh : i \in 1..Len(activeBullets)}}
            /\ targets' = ScanForNewTargets(targets)
    /\ UNCHANGED <<targetManager, isModelLoaded, weapon, isLoaded, staleColliders,
                   remotePlayers, pendingGameState, retryTimers, score, last>>
    /\ UNCHANGED <<activeBullets, bulletColliders, isShooting, shootTimer, magAmmo,
                   totalAmmo, bulletCount, orphanColliders, hist>>
    /\ UNCHANGED netVars

\* the heights and rotations a target takes
Poses == (0..MaxPose) \X (0..MaxPose)

\* targetManager.update(time), called by animate() after weapon.update: the
\* animation gives the i-th target the pose p
TargetsMove(i, p) ==
    /\ targetManager # NULL
    /\ i \in 1..Len(targets)
    /\ p # targets[i].pose
    /\ targets' = [targets EXCEPT ![i].pose = p]
    /\ last' = [op |-> "targetsMove", found |-> targets[i].collider, flag |-> FALSE,
                alive |-> {}, players |-> {}]
    /\ UNCHANGED <<targetManager, isModelLoaded, weapon, isLoaded, staleColliders,
                   remotePlayers, pendingGameState, retryTimers, score>>
    /\ UNCHANGED weaponVars
    /\ UNCHANGED netVars

\* one frame of animate() before Weapon.init() has completed: weapon.update
\* returns at once
UpdateNotLoaded ==
    /\ weapon # NULL
    /\ ~isLoaded
    /\ last' = [op |-> "updateNotLoaded", found |-> FALSE, flag |-> FALSE,
                alive |-> {}, players |-> {}]
    /\ UNCHANGED <<targetManager, isModelLoaded, targets, weapon, isLoaded, staleColliders,
                   remotePlayers, pendingGameState, retryTimers, score>>
    /\ UNCHANGED weaponVars
    /\ SendPlayerInput
    /\ UNCHANGED <<isConnected, isLocked, playerPoses, trails, lostPlayers, sinceSnapshot>>

\* a target destroyed by another player
ByRemotePlayer(d) == d.playerId # LocalPlayer

\* Target reconciliation with the weapon's colliders: the snapshot arrives once
\* the systems are ready and the targets are destroyed by the other players.
Next ==
    \/ InitializeSystems
    \/ ModelLoaded
    \/ WeaponLoaded
    \/ \E gs \in GameStates :
          SystemsReady(targetManager, isModelLoaded) /\ GameStateReceived(gs)
    \/ \E d \in SpawnData : TargetSpawned(d)
    \/ \E d \in HitData : TargetHit(d)
    \/ \E d \in DestroyData : ByRemotePlayer(d) /\ TargetDestroyed(d)
    \/ ScanTimer
    \/ \E scanDue \in BOOLEAN, hits \in HitSeqs(2) : Tick(scanDue, hits)

Spec == Init /\ [][Next]_vars

\* Scoring: targets destroyed by any player, the local one included.
NextScore ==
    \/ InitializeSystems
    \/ ModelLoaded
    \/ \E gs \in GameStates :
          SystemsReady(targetManager, isModelLoaded) /\ GameStateReceived(gs)
    \/ \E d \in SpawnData : TargetSpawned(d)
    \/ \E d \in HitData : TargetHit(d)
    \/ \E d \in DestroyData : TargetDestroyed(d)

SpecScore == Init /\ [][NextScore]_vars

\* Startup: the snapshot may arrive before the systems are ready and is then
\* polled for by the retry timers.
NextStartup ==
    \/ InitializeSystems
    \/ ModelLoaded
    \/ \E gs \in GameStates : GameStateReceived(gs)
    \/ RetryTimer

SpecStartup == Init /\ [][NextStartup]_vars

\* The event loop runs every timer that is due, and initializeSystems and the
\* model load complete.
FairStartup ==
    /\ SpecStartup
    /\ WF_vars(RetryTimer) /\ WF_vars(InitializeSystems) /\ WF_vars(ModelLoaded)

\* The event loop runs every timer that is due; the model may never load.
FairTimers == SpecStartup /\ WF_vars(RetryTimer)

\* the server spawns the target that stands behind the wall
OnRay(d) == d.id = OnRayId /\ d.health = MaxHP /\ d.points = 1

\* Shooting: the player fires at a wall with a target behind it, or into the open.
NextWeapon ==
    \/ InitializeSystems
    \/ ModelLoaded
    \/ WeaponLoaded
    \/ \E d \in SpawnData : OnRay(d) /\ TargetSpawned(d)
    \/ StartShooting
    \/ StopShooting
    \/ ReloadKey
    \/ \E scanDue \in BOOLEAN, aim \in Aims : WeaponUpdate(scanDue, aim)

SpecWeapon == Init /\ [][NextWeapon]_vars

\* Collider registration: targets come and go, are scanned for and are
\* registered through the public method.
NextColliders ==
    \/ InitializeSystems
    \/ ModelLoaded
    \/ WeaponLoaded
    \/ \E d \in SpawnData : TargetSpawned(d)
    \/ \E d \in DestroyData : ByRemotePlayer(d) /\ TargetDestroyed(d)
    \/ ScanTimer
    \/ \E i \in 1..Len(targets) : RegisterTarget(i)
    \/ \E scanDue \in BOOLEAN : Tick(scanDue, << >>)

SpecColliders == Init /\ [][NextColliders]_vars

\* the server spawns targets at full health, with string identifiers
AtFullHealth(d) == d.id[1] = "str" /\ d.health = MaxHP

\* Collider tracking: the targets are animated and removed while the weapon
\* loads and after.
NextTracking ==
    \/ InitializeSystems
    \/ ModelLoaded
    \/ WeaponLoaded
    \/ \E d \in SpawnData : AtFullHealth(d) /\ TargetSpawned(d)
    \/ \E d \in DestroyData : ByRemotePlayer(d) /\ TargetDestroyed(d)
    \/ ScanTimer
    \/ \E i \in 1..Len(targets), p \in Poses : TargetsMove(i, p)
    \/ UpdateNotLoaded
    \/ \E scanDue \in BOOLEAN : Tick(scanDue, << >>)

SpecTracking == Init /\ [][NextTracking]_vars

\* Debug mode: the player fires with the wireframes switched on and off.
NextDebug ==
    \/ InitializeSystems
    \/ ModelLoaded
    \/ WeaponLoaded
    \/ \E d \in SpawnData : OnRay(d) /\ TargetSpawned(d)
    \/ StartShooting
    \/ ToggleDebugMode
    \/ \E scanDue \in BOOLEAN, aim \in Aims \cup DebugAims : WeaponUpdate(scanDue, aim)

SpecDebug == Init /\ [][NextDebug]_vars

\* --------------------------------------------------------------- claims

\* the callbacks that run processGameState
ProcessingOps == {"gameStateReceived", "retryTimer"}

\* C1: whatever the target list held before, right after a snapshot is
\* processed (at once or from a retry timer) the list holds exactly the
\* identifiers of the snapshot's alive targets, each with the snapshot's health.
C1_Convergence ==
    (last.op \in ProcessingOps /\ last.found) =>
        /\ Len(targets) = Cardinality(last.alive)
        /\ {<<targets[i].targetId, targets[i].health>> : i \in 1..Len(targets)} = last.alive

\* a processed snapshot has replaced a list that held other identifiers
C1_Witness ==
    /\ last.op \in ProcessingOps
    /\ last.found
    /\ last.flag
    /\ Len(targets) > 0

C3_DestroyIdempotent ==
    [][\A d \in DestroyData :
          (TargetDestroyed(d) /\ targetManager # NULL) =>
             /\ OnTargetDestroyed(targets', d) = targets'
             /\ AwardPoints(DestroyCallbackScore(score', targets', d.targetId),
                            WasDestroyed(targets', d.targetId), d) = score']_vars

\* the local player's targetDestroyed event has removed a target and others remain
C3_Witness ==
    /\ last.op = "targetDestroyed"
    /\ last.found
    /\ last.flag
    /\ Len(targets) > 0

C5_AuthoritativeHealth ==
    [][\A d \in HitData :
          (TargetHit(d) /\ targetManager # NULL /\ FindIndex(targets, d.targetId) > 0) =>
             /\ targets'[FindIndex(targets, d.targetId)].health = d.health
             /\ OnTargetHit(targets', d) = targets']_vars

\* a targetHit event has set the health of a target that was not marked destroyed
C5_Witness ==
    /\ last.op = "targetHit"
    /\ last.found
    /\ ~last.flag
    /\ \E i \in 1..Len(targets) : targets[i].health > 0 /\ targets[i].health < MaxHP

\* C6: a target whose health local hits have driven to 0 (locallyDestroyed set)
\* and that then receives a targetHit with a positive health ends with that
\* health, locallyDestroyed false, still in the list and with its collider.
C6_OptimisticRollback ==
    [][\A d \in HitData :
          LET i == FindIndex(targets, d.targetId)
          IN  (/\ TargetHit(d)
               /\ targetManager # NULL
               /\ d.health > 0
               /\ i > 0
               /\ targets[i].locallyDestroyed
               /\ targets[i].health = 0) =>
                 /\ Len(targets') = Len(targets)
                 /\ targets'[i].targetId = targets[i].targetId
                 /\ targets'[i].health = d.health
                 /\ ~targets'[i].locallyDestroyed
                 /\ targets'[i].collider]_vars

\* a locally destroyed target has been rolled back to a positive health
C6_Witness ==
    /\ last.op = "targetHit"
    /\ last.found
    /\ last.flag
    /\ \E i \in 1..Len(targets) :
          targets[i].health > 0 /\ ~targets[i].locallyDestroyed /\ targets[i].collider

\* C7: an identifier leaves the target list only in a targetDestroyed event
\* for it or in a processed snapshot; a frame with local bullet hits keeps
\* every target in the list, and every collider a target had.
C7_AuthoritativeRemoval ==
    [][/\ \A id \in TargetIds(targets) \ TargetIds(targets') :
             \/ \E d \in DestroyData : ToStr(d.targetId) = id /\ TargetDestroyed(d)
             \/ last'.op \in ProcessingOps /\ last'.found
       /\ last'.op = "tick" =>
             /\ Len(targets') = Len(targets)
             /\ \A i \in 1..Len(targets) :
                   /\ targets'[i].targetId = targets[i].targetId
                   /\ targets[i].collider => targets'[i].collider]_vars

\* a local hit has brought a target to health 0: it is in the list, with its collider
C7_Witness ==
    /\ last.op = "tick"
    /\ last.flag
    /\ \E i \in 1..Len(targets) :
          targets[i].locallyDestroyed /\ targets[i].health = 0 /\ targets[i].collider

\* C8: processGameState clears and rebuilds only when the target manager
\* exists and its model is loaded; until then it touches neither targets nor
\* players, the snapshot stays pending and a retry timer is outstanding.
C8_SnapshotDeferral ==
    [][/\ (last'.op \in ProcessingOps /\ last'.found) =>
             (targetManager # NULL /\ isModelLoaded)
       /\ (last'.op \in ProcessingOps /\ ~(targetManager # NULL /\ isModelLoaded)) =>
             /\ targets' = targets
             /\ remotePlayers' = remotePlayers
             /\ pendingGameState' # NoState
             /\ retryTimers' >= 1]_vars

\* a retry timer has found the model still loading and the snapshot waits on
C8_Witness ==
    /\ last.op = "retryTimer"
    /\ ~last.found
    /\ targetManager # NULL
    /\ ~isModelLoaded
    /\ pendingGameState # NoState
    /\ retryTimers >= 1

\* C9: with the target manager constructed and the model loaded in the end,
\* a pending snapshot is eventually processed; processing empties
\* pendingGameState, and a retry timer that finds it empty changes nothing.
C9_ConsumedOnce ==
    /\ (pendingGameState # NoState) ~> (pendingGameState = NoState)
    /\ [][/\ (last'.op \in ProcessingOps /\ last'.found) => pendingGameState' = NoState
          /\ (RetryTimer /\ pendingGameState = NoState) =>
                /\ ~last'.found
                /\ UNCHANGED <<targetManager, isModelLoaded, targets, weapon, isLoaded,
                               staleColliders, remotePlayers, pendingGameState, score>>]_vars

\* a retry timer has processed the snapshot while another timer is outstanding
C9_Witness ==
    /\ last.op = "retryTimer"
    /\ last.found
    /\ pendingGameState = NoState
    /\ retryTimers >= 1

\* C10: if the target manager or its model never becomes available and no
\* further snapshot arrives, the retry timers stop firing in the end.
C10_BoundedPolling ==
    ([]~SystemsReady(targetManager, isModelLoaded) /\ <>[](last.op # "gameStateReceived"))
        => <>[](last.op # "retryTimer")

\* C11: right after a snapshot has been processed the target list holds one
\* target per alive entry, the weapon's registry holds one collider per
\* target and none left over from the targets the pass cleared, and a client
\* that knew no remote player has those of the snapshot.
C11_LateJoinCounts ==
    [][(last'.op \in ProcessingOps /\ last'.found) =>
          /\ Len(targets') = Cardinality(last'.alive)
          /\ Cardinality(WithCollider(targets')) + staleColliders'
                = Cardinality(last'.alive)
          /\ remotePlayers = {} =>
                Cardinality(remotePlayers') = Cardinality(last'.players)]_vars

\* the events of the last weapon.update
Events == {hist.events[k] : k \in 1..Len(hist.events)}

\* C12: a bullet whose segment meets a target collider is resolved as a hit of
\* that target, whatever environment mesh the segment meets and however near;
\* it is resolved as an environment hit only when it meets no target collider.
C12_TargetBeforeEnvironment ==
    \A e \in Events :
        e[1] \in {"hit", "env"} => (e[1] = "hit" <=> e[3] # 0)

\* a bullet has hit the target behind the wall although the wall is nearer
C12_Witness ==
    \E e \in Events :
        /\ e[1] = "hit"
        /\ e[4] # 0
        /\ e[4] < TargetAt
        /\ last.flag

\* the segment bullet b covers in the next update strictly contains `at`
Crosses(b, at) == b.pos < at /\ at < b.pos + Step

\* C13: an update detects the collision of every bullet whose segment, from
\* its position before the move to its position after, has a collider or a
\* wall strictly between its ends, although neither end touches it.
C13_SweptCollision ==
    [][\A i \in 1..Len(activeBullets) :
          LET b == activeBullets[i]
          IN  (/\ activeBullets' # activeBullets
               /\ b.mesh \in bulletColliders
               /\ b.aim = "wall"
               /\ Crosses(b, WallAt) \/ (Crosses(b, TargetAt) /\ WithCollider(targets) # {}))
              => \E k \in 1..Len(hist'.events) :
                    /\ hist'.events[k][1] \in {"hit", "env"}
                    /\ hist'.events[k][2] = b.mesh]_vars

\* a bullet has run into the wall, which no end of a frame's segment touches
C13_Witness ==
    \E e \in Events :
        /\ e[1] = "env"
        /\ e[4] = WallAt
        /\ WallAt % Step # 0

\* C14: two shoot requests less than fireRate apart, a release of the trigger
\* and a new press on the next frame included, yield one projectile: an update
\* spawns a projectile only when at least fireRate has passed since the
\* projectile before it was spawned.
C14_FireRateGate ==
    [][bulletCount' > bulletCount => hist.since + DeltaTime >= FireRate]_vars

\* the meshes of the bullets in flight
Meshes == {activeBullets[i].mesh : i \in 1..Len(activeBullets)}

\* C15: there are never more than maxBulletTrails bullets in flight once
\* createBulletTrail has returned, and a bullet evicted to make room was the
\* oldest: every bullet left, the new one included, was created after it.
C15_ProjectileCap ==
    /\ Len(activeBullets) <= MaxBulletTrails
    /\ \A e \in Events :
          e[1] = "evicted" =>
             /\ Len(activeBullets) = MaxBulletTrails
             /\ bulletCount \in Meshes
             /\ \A m \in Meshes : m > e[2]

\* a shot at the cap has evicted a bullet
C15_Witness ==
    \E e \in Events : e[1] = "evicted" /\ bulletCount > MaxBulletTrails

\* C16: the bullets that have a collider are exactly the bullets in flight:
\* the key set of bulletColliders is the set of meshes of activeBullets,
\* through firing, collision, expiry and eviction at the cap.
C16_CollidersMatchBullets == bulletColliders = Meshes

\* C17: a bullet is removed in the frame it collides or in the frame its life
\* reaches zero, never by both: when the two coincide the collision removes
\* it and the expiry branch removes nothing more from activeBullets.
C17_RemovedOnce ==
    \A e \in Events :
        (/\ e[1] = "expired"
         /\ \E c \in Events : c[1] \in {"hit", "env"} /\ c[2] = e[2])
        => e[3] = 0

\* C18: a bullet leaves activeBullets only as Hit or Expired, that is in an
\* update that resolves its collision or finds its life used up; and an
\* update in which bullets only expire invokes no target's onHit: no target
\* loses health.
C18_EndsHitOrExpired ==
    [][activeBullets' # activeBullets =>
          /\ \A m \in Meshes :
                (\A i \in 1..Len(activeBullets') : activeBullets'[i].mesh # m)
                => \E k \in 1..Len(hist'.events) :
                      /\ hist'.events[k][1] \in {"hit", "env", "expired"}
                      /\ hist'.events[k][2] = m
          /\ (\A k \in 1..Len(hist'.events) : hist'.events[k][1] # "hit")
                => \A i \in 1..Len(targets) : targets'[i].health = targets[i].health]_vars

\* C19: no target has more than one collider object in the scene: every
\* collider mesh of the scene is the one targetColliders holds for its target,
\* also after registerTarget is called for a target that has a collider from
\* an earlier registerTarget or scan.
C19_OneColliderPerTarget == orphanColliders = 0

\* C20: the health of every target is an integer from 0 to its maxHealth,
\* and once an authoritative targetHit has been applied, the target it names
\* has health > 0 if it is still in the list.
C20_HealthRange ==
    [][/\ \A i \in 1..Len(targets') :
             targets'[i].health \in 0..targets'[i].maxHealth
       /\ \A d \in HitData :
             (targetManager # NULL /\ TargetHit(d)) =>
                \A i \in 1..Len(targets') :
                   targets'[i].targetId = d.targetId => targets'[i].health > 0]_vars

\* every collider of targetColliders has the pose of its target with the
\* offset, and no collider is left of a target that is gone from the scene
CollidersTrack ==
    /\ \A i \in WithCollider(targets) :
          targets[i].colliderPose = ColliderPoseOf(targets[i].pose)
    /\ staleColliders = 0

\* C21 (as stated): after every call of weapon.update each collider has the
\* position, with the offset, and the rotation of its target, and the
\* collider of a target removed from the scene is gone.
C21_TrackedEveryTick ==
    last.op \in {"tick", "updateNotLoaded"} => CollidersTrack

\* C21 (amended): the same after every call of weapon.update on a weapon
\* that has finished loading; until then update returns at once.
C21_TrackedWhenLoaded ==
    last.op = "tick" => CollidersTrack

\* an update has run on a target that has a collider and has left the pose
\* it was created with
C21_Witness ==
    /\ last.op = "tick"
    /\ \E i \in WithCollider(targets) :
          targets[i].pose[1] # 0 /\ targets[i].pose[2] # 0

\* what the sweep of the next update reports for the i-th bullet in flight,
\* were the debug wireframes of the scene the set helpers: a target, an
\* environment mesh or nothing
SweepResult(helpers, i) ==
    LET b == [activeBullets[i] EXCEPT !.pos = @ + Step]
        prev == activeBullets[i].pos
        w == [bullets |-> activeBullets, targets |-> targets, helpers |-> helpers]
        t == FirstTargetHit(targets, b.aim, prev, b.pos)
    IN  <<HitKind(IF t > 0 THEN TargetAt ELSE 0, FirstEnvHit(w, b, prev)[2]), t>>

\* C22: debug mode and the visibility of colliders do not affect collision:
\* the sweep of every bullet in flight reports what it would report in the
\* run that differs only in having debug mode off, where the scene has no
\* debug wireframe.
C22_VisibilityIrrelevant ==
    \A i \in 1..Len(activeBullets) :
        activeBullets[i].mesh \in bulletColliders =>
            SweepResult(debugHelpers, i) = SweepResult({}, i)

\* C23: no sweep reports an environment hit on a mesh of the weapon, on the
\* mesh or the collider of a bullet, or on the debug wireframe attached to a
\* bullet.
C23_NoSelfIntersection ==
    \A e \in Events :
        e[1] = "env" =>
            e[5] \notin {"weaponMesh", "bulletMesh", "bulletCollider", "bulletHelper"}

\* ------------------------------------------------------- remote players

\* the number of updates the server sends about one player in a run
MaxSeq == 2

\* what the server sends about a player carries its place in the order the
\* server sent it; the data of a join and of a snapshot may be the oldest (0)
SeqNums == 0..MaxSeq

\* new RemotePlayer(scene, playerData, networkManager): the pose of the data
NewRemotePlayer(n) == n

\* remotePlayer.updateFromNetwork(playerData): sets the pose from the data,
\* unless the data is older than what the pose was set from
UpdateFromNetwork(cur, n) == IF n < cur THEN cur ELSE n

\* a playerUpdate: a map from player identifiers to their data
UpdateMaps == UNION {[S -> 1..MaxSeq] : S \in SUBSET PlayerIds}

\* onPlayerUpdate without its else branch
OnPlayerUpdate_NoCreate(rp, poses, u) ==
    [players |-> rp,
     poses |-> [p \in PlayerIds |->
                   IF p \in DOMAIN u /\ p \in rp
                   THEN UpdateFromNetwork(poses[p], u[p]) ELSE poses[p]]]

\* onPlayerUpdate: forEach entry, update the player the map has, or else
\* construct one from the entry and put it into the map
OnPlayerUpdate(rp, poses, u) ==
    [players |-> rp \cup DOMAIN u,
     poses |-> [p \in PlayerIds |->
                   IF p \notin DOMAIN u THEN poses[p]
                   ELSE IF p \in rp THEN UpdateFromNetwork(poses[p], u[p])
                   ELSE NewRemotePlayer(u[p])]]

\* networkManager.onPlayerUpdate
PlayerUpdate(u) ==
    LET r == OnPlayerUpdate(remotePlayers, playerPoses, u)
    IN  /\ remotePlayers' = r.players
        /\ playerPoses' = r.poses
        /\ last' = [op |-> "playerUpdate", found |-> DOMAIN u \subseteq remotePlayers,
                    flag |-> FALSE, alive |-> {}, players |-> DOMAIN u]
        /\ UNCHANGED <<targetManager, isModelLoaded, targets, weapon, isLoaded,
                       staleColliders, pendingGameState, retryTimers, score>>
        /\ UNCHANGED weaponVars
        /\ UNCHANGED <<isConnected, isLocked, sentInputs, trails, lostPlayers, sinceSnapshot>>

\* networkManager.onPlayerJoined: constructs a RemotePlayer and puts it into
\* the map, in place of the one the map may have
PlayerJoined(p, n) ==
    /\ remotePlayers' = remotePlayers \cup {p}
    /\ playerPoses' = [playerPoses EXCEPT ![p] = NewRemotePlayer(n)]
    /\ lostPlayers' = IF p \in remotePlayers THEN lostPlayers \cup {p} ELSE lostPlayers
    /\ last' = [op |-> "playerJoined", found |-> p \in remotePlayers,
                flag |-> FALSE, alive |-> {}, players |-> {p}]
    /\ UNCHANGED <<targetManager, isModelLoaded, targets, weapon, isLoaded,
                   staleColliders, pendingGameState, retryTimers, score>>
    /\ UNCHANGED weaponVars
    /\ UNCHANGED <<isConnected, isLocked, sentInputs, trails, sinceSnapshot>>

\* networkManager.onPlayerLeft: destroys and deletes the player the map has
PlayerLeft(p) ==
    /\ remotePlayers' = remotePlayers \ {p}
    /\ last' = [op |-> "playerLeft", found |-> p \in remotePlayers,
                flag |-> FALSE, alive |-> {}, players |-> {p}]
    /\ UNCHANGED <<targetManager, isModelLoaded, targets, weapon, isLoaded,
                   staleColliders, pendingGameState, retryTimers, score>>
    /\ UNCHANGED weaponVars
    /\ sinceSnapshot' = IF pendingGameState # NoState
                        THEN [sinceSnapshot EXCEPT !.players = @ \cup {p}]
                        ELSE sinceSnapshot
    /\ UNCHANGED <<isConnected, isLocked, playerPoses, sentInputs, trails, lostPlayers>>

\* the callbacks about remote players, in any order
NextPlayers ==
    \/ \E p \in PlayerIds \ {LocalPlayer}, n \in SeqNums : PlayerJoined(p, n)
    \/ \E p \in PlayerIds : PlayerLeft(p)
    \/ \E u \in UpdateMaps : PlayerUpdate(u)

SpecPlayers == Init /\ [][NextPlayers]_vars

C26_NoStalePose ==
    [][\A u \in UpdateMaps :
          PlayerUpdate(u) =>
              \A p \in DOMAIN u : playerPoses'[p] >= playerPoses[p]]_vars

\* no target of the list carries the identifier, as a string or as sent
UnknownTarget(id) == {id, ToStr(id)} \cap TargetIds(targets) = {}

\* C27: a targetHit or targetDestroyed event whose identifier no target of
\* the list carries, or that arrives while there is no target manager,
\* leaves the target list (every health, no target more or less), the
\* colliders and the score as they were.
C27_UnknownIdNoOp ==
    [][/\ \A d \in HitData :
             (TargetHit(d) /\ (targetManager = NULL \/ UnknownTarget(d.targetId)))
                => UNCHANGED <<targets, score, staleColliders>>
       /\ \A d \in DestroyData :
             (TargetDestroyed(d) /\ (targetManager = NULL \/ UnknownTarget(d.targetId)))
                => UNCHANGED <<targets, score, staleColliders>>]_vars

\* the local player is reported to have destroyed a target that the list,
\* which holds another, has not
C27_Witness ==
    /\ last.op = "targetDestroyed"
    /\ ~last.found
    /\ last.flag
    /\ targetManager # NULL
    /\ Len(targets) > 0

\* ------------------------------------------------------ connection loss

\* networkManager.onConnectionChange: on a loss every player of the map is
\* destroyed and the map is cleared
ConnectionChange(connected) ==
    /\ isConnected' = connected
    /\ remotePlayers' = IF connected THEN remotePlayers ELSE {}
    /\ playerPoses' = IF connected THEN playerPoses ELSE [p \in PlayerIds |-> 0]
    /\ last' = [op |-> "connectionChange", found |-> remotePlayers # {},
                flag |-> connected, alive |-> {}, players |-> remotePlayers]
    /\ UNCHANGED <<targetManager, isModelLoaded, targets, weapon, isLoaded,
                   staleColliders, pendingGameState, retryTimers, score>>
    /\ UNCHANGED weaponVars
    /\ UNCHANGED <<isLocked, sentInputs, trails, lostPlayers, sinceSnapshot>>

\* a snapshot that lists the players and no target
PlayersOnly(gs) == gs.players # {} /\ gs.targets = << >>

\* the first update about the other players
FirstUpdate(u) == DOMAIN u = PlayerIds \ {LocalPlayer} /\ \A p \in DOMAIN u : u[p] = 1

\* Connection loss: the snapshot of a join waits for the model while updates
\* about the players come in, the player shoots, the connection drops.
NextLoss ==
    \/ InitializeSystems
    \/ ModelLoaded
    \/ WeaponLoaded
    \/ \E gs \in GameStates : PlayersOnly(gs) /\ GameStateReceived(gs)
    \/ RetryTimer
    \/ \E u \in UpdateMaps : FirstUpdate(u) /\ PlayerUpdate(u)
    \/ \E connected \in BOOLEAN : ConnectionChange(connected)
    \/ \E d \in SpawnData : OnRay(d) /\ TargetSpawned(d)
    \/ StartShooting
    \/ WeaponUpdate(FALSE, "open")

SpecLoss == Init /\ [][NextLoss]_vars

\* C25: a connectionChange with connected = false leaves no remote player
\* undestroyed and the remote-player set empty, and leaves the target list,
\* the target colliders, the bullets in flight with their colliders, the ammo
\* and the score as they were.
C25_ConnectionLoss ==
    [][ConnectionChange(FALSE) =>
          /\ remotePlayers' = {}
          /\ lostPlayers' = {}
          /\ UNCHANGED <<targets, staleColliders, orphanColliders, activeBullets,
                         bulletColliders, magAmmo, totalAmmo, score>>]_vars

\* ---------------------------------------------------------- remote shots

\* the time one call of animateBullet adds, in ms
TrailDelta == 16

\* maxTime of a generic shot effect, in ms: three frames
TrailMaxTime == 48

\* the shot effects the scene holds at most
MaxTrails == 1

ShotData == [playerId : PlayerIds]

\* variant: animateBullet without the cleanup branch
AnimateBullet_NoCleanup(trs, i) == [trs EXCEPT ![i].time = @ + TrailDelta]

\* animateBullet: one call on the i-th effect adds to its time and, past
\* maxTime, removes the bullet from the scene; else it moves and fades it
AnimateBullet(trs, i) ==
    IF trs[i].time + TrailDelta > TrailMaxTime
    THEN SubSeq(trs, 1, i - 1) \o SubSeq(trs, i + 1, Len(trs))
    ELSE [trs EXCEPT ![i].time = @ + TrailDelta]

\* createGenericShotEffect: a bullet mesh with its trail is added to the
\* scene and animateBullet is called at once
CreateGenericShotEffect(trs) ==
    AnimateBullet(Append(trs, [by |-> "generic", time |-> 0]), Len(trs) + 1)

\* remotePlayer.onShoot: the cosmetic trail of a player the map has
OnShoot(trs) ==
    AnimateBullet(Append(trs, [by |-> "player", time |-> 0]), Len(trs) + 1)

\* networkManager.onPlayerShot
PlayerShot(sd) ==
    /\ Len(trails) < MaxTrails
    /\ trails' = IF sd.playerId \in remotePlayers THEN OnShoot(trails)
                 ELSE CreateGenericShotEffect(trails)
    /\ last' = [op |-> "playerShot", found |-> sd.playerId \in remotePlayers,
                flag |-> FALSE, alive |-> {}, players |-> {sd.playerId}]
    /\ UNCHANGED <<targetManager, isModelLoaded, targets, weapon, isLoaded,
                   staleColliders, remotePlayers, pendingGameState, retryTimers, score>>
    /\ UNCHANGED weaponVars
    /\ UNCHANGED <<isConnected, isLocked, playerPoses, sentInputs, lostPlayers, sinceSnapshot>>

\* requestAnimationFrame(animateBullet): the next call on the i-th effect
TrailFrame(i) ==
    /\ trails' = AnimateBullet(trails, i)
    /\ last' = [op |-> "trailFrame", found |-> Len(trails') < Len(trails),
                flag |-> FALSE, alive |-> {}, players |-> {}]
    /\ UNCHANGED <<targetManager, isModelLoaded, targets, weapon, isLoaded,
                   staleColliders, remotePlayers, pendingGameState, retryTimers, score>>
    /\ UNCHANGED weaponVars
    /\ UNCHANGED <<isConnected, isLocked, playerPoses, sentInputs, lostPlayers, sinceSnapshot>>

\* Remote shots: other players, known and unknown, shoot while the local
\* player fires into the open.
NextShots ==
    \/ InitializeSystems
    \/ ModelLoaded
    \/ WeaponLoaded
    \/ \E d \in SpawnData : OnRay(d) /\ TargetSpawned(d)
    \/ StartShooting
    \/ WeaponUpdate(FALSE, "open")
    \/ \E p \in PlayerIds \ {LocalPlayer} : PlayerJoined(p, 0)
    \/ \E sd \in ShotData : PlayerShot(sd)
    \/ \E i \in 1..Len(trails) : TrailFrame(i)

SpecShots == Init /\ [][NextShots]_vars

\* C28: handling a playerShot event, of a known or an unknown shooter, runs
\* no sweep and leaves the targets with their health and locallyDestroyed
\* flags, the colliders, the bullets in flight, the ammo and the score as
\* they were; and no shot effect is in the scene longer than its lifetime.
C28_RemoteShotsCosmetic ==
    /\ [](\A i \in 1..Len(trails) : trails[i].time <= TrailMaxTime)
    /\ [][\A sd \in ShotData :
             PlayerShot(sd) =>
                /\ UNCHANGED <<targets, staleColliders, orphanColliders, activeBullets,
                               bulletColliders, magAmmo, totalAmmo, score, hist>>
                /\ Len(trails') = Len(trails) + 1]_vars

\* the effect of a shot has been removed by its own frame while a target
\* stands with its collider and a local bullet is in flight
C28_Witness ==
    /\ last.op = "trailFrame"
    /\ last.found
    /\ activeBullets # << >>
    /\ \E i \in 1..Len(targets) : targets[i].collider

\* --------------------------------------------------------- outbound input

\* pointerlockchange: the player locks or releases the pointer
PointerLockChange ==
    /\ isLocked' = ~isLocked
    /\ last' = [op |-> "pointerLockChange", found |-> FALSE, flag |-> ~isLocked,
                alive |-> {}, players |-> {}]
    /\ UNCHANGED <<targetManager, isModelLoaded, targets, weapon, isLoaded,
                   staleColliders, remotePlayers, pendingGameState, retryTimers, score>>
    /\ UNCHANGED weaponVars
    /\ UNCHANGED <<isConnected, playerPoses, sentInputs, trails, lostPlayers, sinceSnapshot>>

\* one frame of animate() before initializeSystems has made the weapon
FrameNoWeapon ==
    /\ weapon = NULL
    /\ SendPlayerInput
    /\ last' = [op |-> "frame", found |-> FALSE, flag |-> FALSE,
                alive |-> {}, players |-> {}]
    /\ UNCHANGED <<targetManager, isModelLoaded, targets, weapon, isLoaded,
                   staleColliders, remotePlayers, pendingGameState, retryTimers, score>>
    /\ UNCHANGED weaponVars
    /\ UNCHANGED <<isConnected, isLocked, playerPoses, trails, lostPlayers, sinceSnapshot>>

\* the actions that are one frame of animate()
FrameOps == {"frame", "updateNotLoaded", "tick", "update"}

\* Outbound input: frames run from the start, the connection comes and goes,
\* the pointer is locked and released.
NextInput ==
    \/ InitializeSystems
    \/ ModelLoaded
    \/ WeaponLoaded
    \/ \E d \in SpawnData : OnRay(d) /\ TargetSpawned(d)
    \/ \E connected \in BOOLEAN : ConnectionChange(connected)
    \/ PointerLockChange
    \/ FrameNoWeapon
    \/ UpdateNotLoaded
    \/ \E scanDue \in BOOLEAN : Tick(scanDue, << >>)

SpecInput == Init /\ [][NextInput]_vars

\* C29: a frame of animate() sends exactly one playerInput message when the
\* network manager is connected, with zero velocity and the movement flags
\* false when the pointer is not locked, and none when it is not connected.
C29_OneInputPerFrame ==
    last.op \in FrameOps =>
        /\ isConnected => Len(sentInputs) = 1
        /\ (isConnected /\ ~isLocked) => sentInputs = <<BasicInput>>
        /\ ~isConnected => sentInputs = << >>

\* a frame has sent the basic input of a connected player in the menu
C29_Witness ==
    /\ last.op \in FrameOps
    /\ isConnected
    /\ ~isLocked
    /\ sentInputs = <<BasicInput>>

\* ------------------------------------------------- events during deferral

\* the server reports targets destroyed and players gone while the snapshot
\* of the join waits for the systems
NextDeferred ==
    \/ InitializeSystems
    \/ ModelLoaded
    \/ \E gs \in GameStates : GameStateReceived(gs)
    \/ RetryTimer
    \/ \E d \in DestroyData : ByRemotePlayer(d) /\ d.points = 1 /\ TargetDestroyed(d)
    \/ \E p \in PlayerIds \ {LocalPlayer} : PlayerLeft(p)

SpecDeferred == Init /\ [][NextDeferred]_vars

\* C30: right after a snapshot is processed, the target list holds no target
\* that a targetDestroyed event named, and the remote-player set no player
\* that a playerLeft event named, between the arrival of that snapshot and
\* its processing.
C30_DeferredEventsKept ==
    (last.op \in ProcessingOps /\ last.found) =>
        /\ sinceSnapshot.targets \cap TargetIds(targets) = {}
        /\ sinceSnapshot.players \cap remotePlayers = {}

\* ------------------------------------------------ after a connection loss

\* C31: the retry timer that fires right after a connectionChange with
\* connected = false, with the snapshot that was pending at that time, leaves
\* the remote-player set empty.
C31_EmptyAfterLoss ==
    [][(last.op = "connectionChange" /\ ~last.flag /\ last'.op = "retryTimer")
          => remotePlayers' = {}]_vars

\* C32: every RemotePlayer object that was constructed is the one the
\* remote-player set holds under its identifier or has been destroyed: no
\* identifier has an object that was replaced in the set and not destroyed.
C32_NoOrphanedProxies == lostPlayers = {}

\* C33: the remote-player set never holds the local player's own identifier.
C33_NoLocalPlayer == LocalPlayer \notin remotePlayers

\* ------------------------------------------------ bullets and removed targets

\* C34: no frame runs a bullet into the collider of a target that has been
\* removed from the scene (hit 0), so that the onHit of a removed target is
\* never invoked.
C34_NoHitOnRemovedTarget ==
    [][\A scanDue \in BOOLEAN, hits \in HitSeqs(2) :
           Tick(scanDue, hits) => \A k \in 1..Len(hits) : hits[k] # 0]_vars

\* C35: a bullet that leaves activeBullets in a step is one that this step
\* removed for its own collision, its own expiry or at the cap, and its
\* collider has left bulletColliders with it; no other bullet is dropped.
C35_OnlyEndedBulletsRemoved ==
    [][\A m \in Meshes :
          (\A i \in 1..Len(activeBullets') : activeBullets'[i].mesh # m)
          => /\ m \notin bulletColliders'
             /\ \E k \in 1..Len(hist'.events) :
                   /\ hist'.events[k][1] \in {"hit", "env", "expired", "evicted"}
                   /\ hist'.events[k][2] = m]_vars

\* ------------------------------------------------ several colliders on a ray

\* the server spawns the targets that stand in the row
InRow(d) == d.health = MaxHP /\ d.points = 1

\* Shooting along a row of two targets.
NextRow ==
    \/ InitializeSystems
    \/ ModelLoaded
    \/ WeaponLoaded
    \/ \E d \in SpawnData : InRow(d) /\ TargetSpawned(d)
    \/ StartShooting
    \/ StopShooting
    \/ \E scanDue \in BOOLEAN : WeaponUpdate(scanDue, "row")

SpecRow == Init /\ [][NextRow]_vars

\* the "hit" events of the last update, as indices into its events
HitEvents(h) == {k \in 1..Len(h.events) : h.events[k][1] = "hit"}

\* C36: an update reports at most one hit per bullet; the bullet was in flight
\* and is out of activeBullets after the same update; the target told is,
\* among the targets with a collider on the ray, one whose collider is nearest
\* to the start of the sweep; a target's health changes only by the hits
\* reported on it; and a bullet mesh that is created is a new one, so that a
\* bullet that has left does not come back.
C36_OneHitPerProjectile ==
    [][(\E scanDue \in BOOLEAN : WeaponUpdate(scanDue, "row")) =>
          /\ \A k \in HitEvents(hist') :
                /\ hist'.events[k][2] \in Meshes
                /\ \A i \in 1..Len(activeBullets') :
                      activeBullets'[i].mesh # hist'.events[k][2]
                /\ \A k2 \in HitEvents(hist') :
                      hist'.events[k2][2] = hist'.events[k][2] => k2 = k
                /\ hist'.events[k][3] \in WithCollider(targets')
                /\ \A j \in WithCollider(targets') :
                      ColliderAt("row", targets'[j].targetId) # 0
                      => ColliderAt("row", targets'[hist'.events[k][3]].targetId)
                            <= ColliderAt("row", targets'[j].targetId)
          /\ \A i \in 1..Len(targets) :
                targets[i].health - targets'[i].health
                   <= TargetDamage * Cardinality({k \in HitEvents(hist') :
                                                     hist'.events[k][3] = i})
          /\ \A i \in 1..Len(activeBullets') :
                activeBullets'[i].mesh \notin Meshes
                => activeBullets'[i].mesh > bulletCount]_vars

\* a bullet has swept through the colliders of both targets of the row, the
\* farther one being first in the list, and has hit the nearer one
C36_Witness ==
    /\ last.op = "update"
    /\ Len(targets) = 2
    /\ WithCollider(targets) = {1, 2}
    /\ targets[1].targetId = OnRayId
    /\ targets[2].targetId = NearId
    /\ \E k \in HitEvents(hist) : hist.events[k][3] = 2
    /\ targets[1].health = MaxHP
    /\ targets[2].health < MaxHP

\* ------------------------------------------------ the trigger held down

\* the only press of the trigger
FirstPress == ~isShooting

\* The trigger is pressed once and held: no release and no second press.
NextHeld ==
    \/ InitializeSystems
    \/ ModelLoaded
    \/ WeaponLoaded
    \/ \E d \in SpawnData : OnRay(d) /\ TargetSpawned(d)
    \/ FirstPress /\ StartShooting
    \/ \E scanDue \in BOOLEAN, aim \in Aims : WeaponUpdate(scanDue, aim)

SpecHeld == Init /\ [][NextHeld]_vars

\* the events of the update that has just run tell of a reload
Reloaded(h) == \E k \in 1..Len(h.events) : h.events[k][1] = "reload"

AmmoCap == 1

\* the amounts addAmmo is called with
MaxAmount == 2
Amounts == 0..MaxAmount

\* ammunition is picked up until this many projectiles have been spawned
MaxShots == 5

\* Math.min(this.totalAmmo + amount, 300)
CappedTotal(total, amount) ==
    IF total + amount <= AmmoCap THEN total + amount ELSE AmmoCap

\* weapon.addAmmo(amount)
AddAmmo(amount) ==
    /\ weapon # NULL
    /\ totalAmmo' = CappedTotal(totalAmmo, amount)
    /\ last' = [op |-> "addAmmo", found |-> FALSE, flag |-> FALSE,
                alive |-> {}, players |-> {}]
    /\ UNCHANGED <<targetManager, isModelLoaded, targets, weapon, isLoaded, staleColliders,
                   remotePlayers, pendingGameState, retryTimers, score>>
    /\ UNCHANGED <<activeBullets, bulletColliders, isShooting, shootTimer, magAmmo,
                   bulletCount, orphanColliders, debugMode, debugHelpers, hist>>
    /\ UNCHANGED netVars

\* Shooting into the open, reloading and picking up ammunition.
NextAmmo ==
    \/ InitializeSystems
    \/ WeaponLoaded
    \/ StartShooting
    \/ StopShooting
    \/ ReloadKey
    \/ \E amount \in Amounts : bulletCount < MaxShots /\ AddAmmo(amount)
    \/ \E scanDue \in BOOLEAN : WeaponUpdate(scanDue, "open")

SpecAmmo == Init /\ [][NextAmmo]_vars

\* the ammunition of the weapon, as reload() sees it
Ammo == [mag |-> magAmmo, total |-> totalAmmo]

\* C38: the magazine holds between 0 and maxAmmo rounds and the reserve is
\* never negative; an update that spawns a projectile spawns one and takes
\* exactly one round from the magazine and none from the reserve; reload(),
\* by the key or by shoot() on an empty magazine, keeps magAmmo + totalAmmo
\* and changes nothing when the magazine is full or the reserve is empty;
\* no update spawns a projectile from an empty magazine.
C38_AmmoAccounting ==
    /\ [](/\ 0 <= magAmmo /\ magAmmo <= MagSize
          /\ totalAmmo >= 0
          /\ Reload(Ammo).mag + Reload(Ammo).total = magAmmo + totalAmmo
          /\ (magAmmo = MagSize \/ totalAmmo = 0) => Reload(Ammo) = Ammo)
    /\ [][/\ bulletCount' > bulletCount
                => /\ bulletCount' = bulletCount + 1
                   /\ magAmmo' = magAmmo - 1
                   /\ totalAmmo' = totalAmmo
          /\ magAmmo = 0 => bulletCount' = bulletCount
          /\ (ReloadKey \/ (Reloaded(hist') /\ hist' # hist))
                => /\ Ammo' = Reload(Ammo)
                   /\ magAmmo' + totalAmmo' = magAmmo + totalAmmo
          /\ (magAmmo' # magAmmo /\ bulletCount' = bulletCount)
                => Ammo' = Reload(Ammo)]_vars

\* shoot() has just reloaded an empty magazine from a reserve that could not
\* fill it, after rounds were added to the reserve
C38_Witness ==
    /\ last.op = "update"
    /\ Reloaded(hist)
    /\ bulletCount > MagSize
    /\ magAmmo > 0
    /\ magAmmo < MagSize
    /\ totalAmmo = 0

\* C39: addAmmo(amount) with amount >= 0 leaves totalAmmo at least what it
\* was, the totalAmmo the weapon is built with included, and leaves magAmmo
\* as it is.
C39_AddAmmoNeverDecreases ==
    [][\A amount \in Amounts :
          AddAmmo(amount) => totalAmmo' >= totalAmmo /\ magAmmo' = magAmmo]_vars
====
